---- MODULE Spec2Model ----
(***************************************************************************)
(* DigiPort Project Tree Exporter (assets/js/export-index-tree.js).        *)
(*                                                                         *)
(* The script walks the directory tree under process.cwd() depth-first,    *)
(* appends one record per entry to the global array `output`, counts       *)
(* folders, files and HTML parse warnings, and then writes the array to    *)
(* assets/data/tree.json.                                                  *)
(*                                                                         *)
(* Strings are sequences of one-character strings, so that extname,        *)
(* toLowerCase, replace and trim are computed character by character.      *)
(* A nullable field is Null (JavaScript null) or Some(v).                  *)
(***************************************************************************)
EXTENDS Integers, Sequences, FiniteSets, TLC

\* Largest number of entries (files and folders) below the scan root.
MaxEntries == 3

Null == <<>>
Some(v) == <<v>>

VARIABLES
  platform,       \* "posix" or "win32": which flavour of the path module is loaded
  projectRoot,    \* process.cwd()
  fs,             \* the directory tree on disk below projectRoot
  pc,             \* position of the script
  stack,          \* the activations of walk, innermost last
  cur,            \* the locals of the file branch of the current iteration
  output,         \* the global array of records
  folderCount,
  fileCount,
  parseWarnings,
  written,        \* tree.json has been written
  visited,        \* history: the entry each element of output was built for
  readFailed,     \* history: the files whose readFileSync threw
  err             \* history: the uncaught exception, "none" while there is none

vars == <<platform, projectRoot, fs, pc, stack, cur, output, folderCount,
          fileCount, parseWarnings, written, visited, readFailed, err>>

----------------------------------------------------------------------------
(* Characters and strings *)

BS == "\\"
FS == "/"
DOT == "."

UpperChars == <<"A","B","C","D","E","F","G","H","I","J","K","L","M",
                "N","O","P","Q","R","S","T","U","V","W","X","Y","Z">>
LowerChars == <<"a","b","c","d","e","f","g","h","i","j","k","l","m",
                "n","o","p","q","r","s","t","u","v","w","x","y","z">>

toLowerChar(c) ==
  IF \E k \in DOMAIN UpperChars : UpperChars[k] = c
  THEN LowerChars[CHOOSE k \in DOMAIN UpperChars : UpperChars[k] = c]
  ELSE c

\* String.prototype.toLowerCase
toLowerCase(s) == [k \in DOMAIN s |-> toLowerChar(s[k])]

toUpperChar(c) ==
  IF \E k \in DOMAIN LowerChars : LowerChars[k] = c
  THEN UpperChars[CHOOSE k \in DOMAIN LowerChars : LowerChars[k] = c]
  ELSE c

toUpperCase(s) == [k \in DOMAIN s |-> toUpperChar(s[k])]

\* .replace(/\\/g, '/')
replaceBackslashes(s) == [k \in DOMAIN s |-> IF s[k] = BS THEN FS ELSE s[k]]

slice(s, from, to) == IF from > to THEN <<>> ELSE SubSeq(s, from, to)

RECURSIVE trimStart(_)
trimStart(s) == IF s # <<>> /\ Head(s) = " " THEN trimStart(Tail(s)) ELSE s

RECURSIVE trimEnd(_)
trimEnd(s) ==
  IF s # <<>> /\ s[Len(s)] = " " THEN trimEnd(slice(s, 1, Len(s) - 1)) ELSE s

\* String.prototype.trim
trim(s) == trimEnd(trimStart(s))

----------------------------------------------------------------------------
(* The path module *)

sep == IF platform = "win32" THEN BS ELSE FS

isPathSeparator(c) == IF platform = "win32" THEN c \in {FS, BS} ELSE c = FS

\* path.join(dir, name) for an absolute, normalized dir and a single entry name
join(dir, name) ==
  IF isPathSeparator(dir[Len(dir)]) THEN dir \o name ELSE dir \o <<sep>> \o name

\* path.relative(from, to) for a `to` that lies below `from`
relative(from, to) ==
  IF isPathSeparator(from[Len(from)])
  THEN slice(to, Len(from) + 1, Len(to))
  ELSE slice(to, Len(from) + 2, Len(to))

\* path.extname: the loop runs from the last character to the first, with
\* the state (startDot, startPart, end, matchedSlash, preDotState); indices
\* are the 0-based ones of the library.
RECURSIVE extnameScan(_, _, _)
extnameScan(p, i, st) ==
  IF i < 0 THEN st
  ELSE LET c == p[i + 1] IN
    IF isPathSeparator(c)
    THEN IF ~st.matchedSlash
         THEN [st EXCEPT !.startPart = i + 1]
         ELSE extnameScan(p, i - 1, st)
    ELSE LET s1 == IF st.end = -1
                   THEN [st EXCEPT !.matchedSlash = FALSE, !.end = i + 1]
                   ELSE st
             s2 == IF c = DOT
                   THEN IF s1.startDot = -1
                        THEN [s1 EXCEPT !.startDot = i]
                        ELSE IF s1.preDotState # 1
                             THEN [s1 EXCEPT !.preDotState = 1]
                             ELSE s1
                   ELSE IF s1.startDot # -1
                        THEN [s1 EXCEPT !.preDotState = -1]
                        ELSE s1
         IN extnameScan(p, i - 1, s2)

extname(p) ==
  LET st == extnameScan(p, Len(p) - 1,
              [startDot |-> -1, startPart |-> 0, end |-> -1,
               matchedSlash |-> TRUE, preDotState |-> 0])
  IN IF \/ st.startDot = -1
        \/ st.end = -1
        \/ st.preDotState = 0
        \/ (st.preDotState = 1 /\ st.startDot = st.end - 1
                               /\ st.startDot = st.startPart + 1)
     THEN <<>>
     ELSE slice(p, st.startDot + 1, st.end)

----------------------------------------------------------------------------
(* CATEGORY_MAP *)

CATEGORY_MAP == <<
  << <<".","h","t","m","l">>, "markup" >>,
  << <<".","c","s","s">>,     "stylesheet" >>,
  << <<".","j","s">>,         "script" >>,
  << <<".","j","s","o","n">>, "data" >>,
  << <<".","j","p","g">>,     "image" >>,
  << <<".","j","p","e","g">>, "image" >>,
  << <<".","p","n","g">>,     "image" >>,
  << <<".","g","i","f">>,     "image" >>,
  << <<".","s","v","g">>,     "image" >>,
  << <<".","i","c","o">>,     "image" >>,
  << <<".","m","p","3">>,     "audio" >>,
  << <<".","w","a","v">>,     "audio" >>,
  << <<".","m","p","4">>,     "video" >>,
  << <<".","t","x","t">>,     "document" >>,
  << <<".","m","d">>,         "document" >>,
  << <<".","b","a","t">>,     "script" >>,
  << <<".","s","h">>,         "script" >> >>

\* categoryOf without the || 'unknown' default
categoryOfNoDefault(ext) ==
  IF \E k \in DOMAIN CATEGORY_MAP : CATEGORY_MAP[k][1] = ext
  THEN CATEGORY_MAP[CHOOSE k \in DOMAIN CATEGORY_MAP : CATEGORY_MAP[k][1] = ext][2]
  ELSE "undefined"

\* CATEGORY_MAP[ext] || 'unknown'
categoryOf(ext) ==
  IF \E k \in DOMAIN CATEGORY_MAP : CATEGORY_MAP[k][1] = ext
  THEN CATEGORY_MAP[CHOOSE k \in DOMAIN CATEGORY_MAP : CATEGORY_MAP[k][1] = ext][2]
  ELSE "unknown"

\* isHtml with the test dropped: every file is read for metadata
isHtmlAlways(ext) == TRUE

\* ext === '.html'
isHtml(ext) == ext = <<".","h","t","m","l">>

\* extOf without .toLowerCase()
extOfCaseKept(name) == extname(name)

\* path.extname(entry.name).toLowerCase()
extOf(name) == toLowerCase(extname(name))

----------------------------------------------------------------------------
(* HTML metadata.  The contents of a file are a sequence of tags; the two  *)
(* regular expressions pick the first <title> element and the first        *)
(* <meta name="sitemap" content="..."> element.                            *)

TitleTag(text) == [tag |-> "title", text |-> text]
SitemapTag(text) == [tag |-> "meta", text |-> text]

firstTag(contents, tag) ==
  LET hits == SelectSeq(contents, LAMBDA t : t.tag = tag)
  IN IF hits = <<>> THEN Null ELSE Some(hits[1].text)

\* if (titleMatch) title = titleMatch[1].trim();
titleOf(contents) ==
  LET titleMatch == firstTag(contents, "title")
  IN IF titleMatch # Null THEN Some(trim(titleMatch[1])) ELSE Null

\* sitemap = sitemapMatch ? sitemapMatch[1].toLowerCase() : 'none';
sitemapOf(contents) ==
  LET sitemapMatch == firstTag(contents, "meta")
  IN IF sitemapMatch # Null
     THEN Some(toLowerCase(sitemapMatch[1]))
     ELSE Some(<<"n","o","n","e">>)

Contents ==
  { <<>>,
    << TitleTag(<<" ","H","i"," ">>) >>,
    << SitemapTag(<<"E","x">>), TitleTag(<<>>), TitleTag(<<"B">>) >> }

----------------------------------------------------------------------------
(* The directory tree.  Entries are numbered 1..fs.n, 0 is the scan root;  *)
(* a directory lists its children in increasing number.                    *)

Entries == 1..fs.n

\* fs.readdirSync(dir, { withFileTypes: true })
readdirSync(d) ==
  SelectSeq([k \in 1..fs.n |-> k], LAMBDA k : fs.parent[k] = d)

RECURSIVE Ancestors(_)
\* the proper ancestors of entry e, the scan root excluded
Ancestors(e) ==
  IF fs.parent[e] = 0 THEN {} ELSE {fs.parent[e]} \cup Ancestors(fs.parent[e])

BaseNames ==
  { <<"a">>, <<"b">>, <<"a", BS, "b">>, <<"i",".","h","t","m","l">>,
    <<"X",".","J","P","G">> }

Extensions == { CATEGORY_MAP[k][1] : k \in DOMAIN CATEGORY_MAP }

ExtraNames ==
  { <<"x",".","z","z">>, <<".","h","t","m","l">>, <<"a",".">>,
    <<"a",".",".","b">>, <<".",".",BS,"x">>, <<"a",".","b",".","M","d">>,
    <<".",".","a">>, <<"a",".","b",BS,"c">> }

AllNames ==
  BaseNames \cup ExtraNames
    \cup { <<"x">> \o e : e \in Extensions }
    \cup { <<"X">> \o toUpperCase(e) : e \in Extensions }

\* a name the platform allows for a directory entry
LegalName(pf, name) ==
  /\ name # <<>>
  /\ name # <<DOT>>
  /\ name # <<DOT, DOT>>
  /\ \A k \in DOMAIN name : name[k] # FS
  /\ pf = "win32" => \A k \in DOMAIN name : name[k] # BS

Roots ==
  { [platform |-> "posix", cwd |-> <<FS, "r">>],
    [platform |-> "posix", cwd |-> <<FS>>],
    [platform |-> "win32", cwd |-> <<"C", ":", BS, "r">>] }

Trees(pf, n, names) ==
  { [n |-> n, parent |-> p, isDir |-> d, name |-> nm, size |-> [k \in 1..n |-> k - 1]] :
      p \in { q \in [1..n -> 0..(n - 1)] : \A k \in 1..n : q[k] < k },
      d \in [1..n -> BOOLEAN],
      nm \in [1..n -> { x \in names : LegalName(pf, x) }] }

WellFormed(t) ==
  /\ \A k \in 1..t.n : t.parent[k] # 0 => t.isDir[t.parent[k]]
  /\ \A j, k \in 1..t.n :
       (j # k /\ t.parent[j] = t.parent[k]) => t.name[j] # t.name[k]

NoCur == [ext |-> <<>>, size |-> 0, category |-> "", title |-> Null, sitemap |-> Null]

Init ==
  /\ \E r \in Roots :
       /\ platform = r.platform
       /\ projectRoot = r.cwd
       /\ \/ \E n \in 0..MaxEntries : fs \in { t \in Trees(r.platform, n, BaseNames) : WellFormed(t) }
          \/ fs \in Trees(r.platform, 1, AllNames)
  /\ pc = "start"
  /\ stack = <<>>
  /\ cur = NoCur
  /\ output = <<>>
  /\ folderCount = 0
  /\ fileCount = 0
  /\ parseWarnings = 0
  /\ written = FALSE
  /\ visited = <<>>
  /\ readFailed = {}
  /\ err = "none"

----------------------------------------------------------------------------
(* walk *)

Top == stack[Len(stack)]
entry == Top.entries[Top.i]
fullPath == join(Top.path, fs.name[entry])
relativePath == replaceBackslashes(relative(projectRoot, fullPath))

\* Advance with the index stepped twice
AdvanceSkipping(stk) == [stk EXCEPT ![Len(stk)].i = @ + 2]

\* the for loop of an activation moves on to its next entry
Advance(stk) == [stk EXCEPT ![Len(stk)].i = @ + 1]

\* Propagate with a catch around the loop body that skips the failing entry
PropagateCaught(stk) ==
  IF stk = <<>> THEN [pc |-> "mkdir", stack |-> <<>>]
  ELSE [pc |-> "loop", stack |-> Advance(stk)]

\* An exception thrown inside walk: no activation catches it, the script ends.
Propagate(stk) == [pc |-> "crashed", stack |-> <<>>]

\* walk(dir) is entered from the activations stk: line 93
walk(d, dirPath, stk) ==
  \E ok \in BOOLEAN :
    IF ok
    THEN /\ stack' = Append(stk, [dir |-> d, path |-> dirPath,
                                  entries |-> readdirSync(d), i |-> 1])
         /\ pc' = "loop"
         /\ err' = err
    ELSE /\ err' = "readdir"
         /\ pc' = Propagate(stk).pc
         /\ stack' = Propagate(stk).stack

\* line 168
Begin ==
  /\ pc = "start"
  /\ walk(0, projectRoot, stack)
  /\ UNCHANGED <<platform, projectRoot, fs, cur, output, folderCount, fileCount,
                 parseWarnings, written, visited, readFailed>>

folderRecord ==
  [name |-> fs.name[entry], path |-> relativePath, type |-> "folder",
   ext |-> Null, size |-> Null, title |-> Null, sitemap |-> Null,
   category |-> Null]

\* EnterFolder that recurses without having pushed the folder's record
EnterFolderUnrecorded ==
  /\ pc = "loop"
  /\ stack # <<>>
  /\ Top.i <= Len(Top.entries)
  /\ fs.isDir[entry]
  /\ folderCount' = folderCount + 1
  /\ walk(entry, fullPath, stack)
  /\ UNCHANGED <<platform, projectRoot, fs, cur, output, visited, fileCount,
                 parseWarnings, written, readFailed>>

\* lines 99-113
EnterFolder ==
  /\ pc = "loop"
  /\ stack # <<>>
  /\ Top.i <= Len(Top.entries)
  /\ fs.isDir[entry]
  /\ folderCount' = folderCount + 1
  /\ output' = Append(output, folderRecord)
  /\ visited' = Append(visited, entry)
  /\ walk(entry, fullPath, stack)
  /\ UNCHANGED <<platform, projectRoot, fs, cur, fileCount, parseWarnings,
                 written, readFailed>>

\* BeginFile without fileCount++
BeginFileUncounted ==
  /\ pc = "loop"
  /\ stack # <<>>
  /\ Top.i <= Len(Top.entries)
  /\ ~fs.isDir[entry]
  /\ cur' = [NoCur EXCEPT !.ext = extOf(fs.name[entry])]
  /\ pc' = "stat"
  /\ UNCHANGED <<platform, projectRoot, fs, stack, output, folderCount,
                 fileCount, parseWarnings, written, visited, readFailed, err>>

\* lines 114-117
BeginFile ==
  /\ pc = "loop"
  /\ stack # <<>>
  /\ Top.i <= Len(Top.entries)
  /\ ~fs.isDir[entry]
  /\ fileCount' = fileCount + 1
  /\ cur' = [NoCur EXCEPT !.ext = extOf(fs.name[entry])]
  /\ pc' = "stat"
  /\ UNCHANGED <<platform, projectRoot, fs, stack, output, folderCount,
                 parseWarnings, written, visited, readFailed, err>>

\* lines 118-128
StatFile ==
  /\ pc = "stat"
  /\ \E ok \in BOOLEAN :
       IF ok
       THEN /\ cur' = [cur EXCEPT !.size = fs.size[entry],
                                  !.category = categoryOf(cur.ext),
                                  !.title = Null, !.sitemap = Null]
            /\ pc' = IF isHtml(cur.ext) THEN "read" ELSE "push"
            /\ UNCHANGED <<stack, err>>
       ELSE /\ err' = "stat"
            /\ pc' = Propagate(stack).pc
            /\ stack' = Propagate(stack).stack
            /\ cur' = NoCur
  /\ UNCHANGED <<platform, projectRoot, fs, output, folderCount, fileCount,
                 parseWarnings, written, visited, readFailed>>

\* ReadHtml without the try/catch: a failed read is thrown on
ReadHtmlUncaught ==
  /\ pc = "read"
  /\ \/ \E contents \in Contents :
          /\ cur' = [cur EXCEPT !.title = titleOf(contents),
                                !.sitemap = sitemapOf(contents)]
          /\ pc' = "push"
          /\ UNCHANGED <<stack, err, readFailed>>
     \/ /\ readFailed' = readFailed \cup {entry}
        /\ err' = "read"
        /\ pc' = Propagate(stack).pc
        /\ stack' = Propagate(stack).stack
        /\ cur' = NoCur
  /\ UNCHANGED <<platform, projectRoot, fs, output, folderCount, fileCount,
                 parseWarnings, written, visited>>

\* lines 129-141
ReadHtml ==
  /\ pc = "read"
  /\ \/ \E contents \in Contents :
          /\ cur' = [cur EXCEPT !.title = titleOf(contents),
                                !.sitemap = sitemapOf(contents)]
          /\ UNCHANGED <<parseWarnings, readFailed>>
     \/ /\ parseWarnings' = parseWarnings + 1
        /\ readFailed' = readFailed \cup {entry}
        /\ cur' = cur
  /\ pc' = "push"
  /\ UNCHANGED <<platform, projectRoot, fs, stack, output, folderCount,
                 fileCount, written, visited, err>>

fileRecord ==
  [name |-> fs.name[entry], path |-> relativePath, type |-> "file",
   ext |-> Some(cur.ext), size |-> Some(cur.size), title |-> cur.title,
   sitemap |-> cur.sitemap, category |-> Some(cur.category)]

\* lines 145-156
PushFile ==
  /\ pc = "push"
  /\ output' = Append(output, fileRecord)
  /\ visited' = Append(visited, entry)
  /\ stack' = Advance(stack)
  /\ cur' = NoCur
  /\ pc' = "loop"
  /\ UNCHANGED <<platform, projectRoot, fs, folderCount, fileCount,
                 parseWarnings, written, readFailed, err>>

\* line 157: the for loop of the innermost activation is exhausted
Return ==
  /\ pc = "loop"
  /\ stack # <<>>
  /\ Top.i > Len(Top.entries)
  /\ LET rest == SubSeq(stack, 1, Len(stack) - 1)
     IN IF rest = <<>>
        THEN /\ stack' = rest
             /\ pc' = "mkdir"
        ELSE /\ stack' = Advance(rest)
             /\ pc' = "loop"
  /\ UNCHANGED <<platform, projectRoot, fs, cur, output, folderCount, fileCount,
                 parseWarnings, written, visited, readFailed, err>>

\* line 176
MkdirOutput ==
  /\ pc = "mkdir"
  /\ \E ok \in BOOLEAN :
       IF ok THEN pc' = "write" /\ err' = err
             ELSE pc' = "crashed" /\ err' = "mkdir"
  /\ UNCHANGED <<platform, projectRoot, fs, stack, cur, output, folderCount,
                 fileCount, parseWarnings, written, visited, readFailed>>

\* line 184
WriteOutput ==
  /\ pc = "write"
  /\ \E ok \in BOOLEAN :
       IF ok THEN pc' = "done" /\ written' = TRUE /\ err' = err
             ELSE pc' = "crashed" /\ written' = written /\ err' = "write"
  /\ UNCHANGED <<platform, projectRoot, fs, stack, cur, output, folderCount,
                 fileCount, parseWarnings, visited, readFailed>>

Next ==
  \/ Begin
  \/ EnterFolder
  \/ BeginFile
  \/ StatFile
  \/ ReadHtml
  \/ PushFile
  \/ Return
  \/ MkdirOutput
  \/ WriteOutput

Spec == Init /\ [][Next]_vars

----------------------------------------------------------------------------
(* What the properties speak about *)

Files == { e \in Entries : ~fs.isDir[e] }
Folders == { e \in Entries : fs.isDir[e] }

\* the indices of output at which a record for entry e stands
RecordsOf(e) == { i \in DOMAIN visited : visited[i] = e }

\* walk(projectRoot) has returned to the main script
WalkCompleted == pc \in {"mkdir", "write", "done"} \/ err \in {"mkdir", "write"}

\* the iteration of the innermost loop is inside its file branch
InFileBranch == pc \in {"stat", "read", "push"}

RECURSIVE EntryPath(_)
\* the names from the scan root down to entry e, joined by "/"
EntryPath(e) ==
  IF fs.parent[e] = 0 THEN fs.name[e]
  ELSE EntryPath(fs.parent[e]) \o <<FS>> \o fs.name[e]

\* the position of the last dot of a name, 0 when it has none
LastDot(name) ==
  IF \E k \in DOMAIN name : name[k] = DOT
  THEN CHOOSE k \in DOMAIN name :
         name[k] = DOT /\ \A j \in DOMAIN name : name[j] = DOT => j <= k
  ELSE 0

\* a name has an extension when a dot stands after its first character
HasExtension(name) == LastDot(name) > 1
ExtensionOf(name) == SubSeq(name, LastDot(name), Len(name))

\* t is one of the "/"-separated segments of the path s
HasSegment(s, t) ==
  \E k \in 1..(Len(s) - Len(t) + 1) :
    /\ SubSeq(s, k, k + Len(t) - 1) = t
    /\ k = 1 \/ s[k - 1] = FS
    /\ k + Len(t) - 1 = Len(s) \/ s[k + Len(t)] = FS

\* the extension table as the specification lists it
TableCategory(e) ==
  CASE e = <<".","h","t","m","l">> -> "markup"
    [] e = <<".","c","s","s">> -> "stylesheet"
    [] e \in { <<".","j","s">>, <<".","b","a","t">>, <<".","s","h">> } -> "script"
    [] e = <<".","j","s","o","n">> -> "data"
    [] e \in { <<".","j","p","g">>, <<".","j","p","e","g">>, <<".","p","n","g">>,
               <<".","g","i","f">>, <<".","s","v","g">>, <<".","i","c","o">> } -> "image"
    [] e \in { <<".","m","p","3">>, <<".","w","a","v">> } -> "audio"
    [] e = <<".","m","p","4">> -> "video"
    [] e \in { <<".","t","x","t">>, <<".","m","d">> } -> "document"
    [] OTHER -> "unknown"

----------------------------------------------------------------------------
(* Properties *)

\* C1: once walk(projectRoot) has returned, output holds exactly F + D
\* records: one for each entry below the root, none for the root, no entry
\* twice and none skipped; each record carries its entry's name and type.
C1_Completeness ==
  WalkCompleted =>
    /\ Len(output) = Cardinality(Files) + Cardinality(Folders)
    /\ Len(visited) = Len(output)
    /\ \A e \in Entries : Cardinality(RecordsOf(e)) = 1
    /\ \A i \in DOMAIN output :
         /\ visited[i] \in Entries
         /\ output[i].name = fs.name[visited[i]]
         /\ output[i].type = IF fs.isDir[visited[i]] THEN "folder" ELSE "file"

\* a completed walk over a folder with a child, followed by a later sibling
C1_Witness ==
  /\ pc = "done"
  /\ fs.n >= 3
  /\ \E d, c, s \in Entries :
       /\ fs.isDir[d] /\ fs.parent[c] = d /\ fs.parent[s] = 0 /\ s > c
       /\ ~fs.isDir[s]

\* C2: in every state, a folder's record stands before the record of each
\* of its descendants, every recorded entry has all its ancestors recorded
\* before it, and every folder walk is inside of is already recorded.
C2_ParentBeforeChildren ==
  /\ \A i, j \in DOMAIN visited :
       (output[i].type = "folder" /\ visited[i] \in Ancestors(visited[j])) => i < j
  /\ \A j \in DOMAIN visited : \A a \in Ancestors(visited[j]) :
       \E i \in 1..(j - 1) : visited[i] = a /\ output[i].type = "folder"
  /\ \A k \in DOMAIN stack :
       stack[k].dir # 0 => RecordsOf(stack[k].dir) # {}

\* the walk is two folders deep and has recorded an entry of the inner one
C2_Witness ==
  /\ pc = "loop"
  /\ Len(stack) = 3
  /\ \E j \in DOMAIN visited : Cardinality(Ancestors(visited[j])) = 2

\* C3: no two records of output have the same path.
C3_PathsUnique ==
  \A i, j \in DOMAIN output : i # j => output[i].path # output[j].path

\* C4: a .html file whose read failed gets exactly one record, typed file,
\* with its ext, size and category and with title and sitemap null; the
\* warning counter equals the number of failed reads; the failure ends
\* neither the script nor the walk, which still records every entry.
C4_IsolatedHtmlFailure ==
  /\ parseWarnings = Cardinality(readFailed)
  /\ \A e \in readFailed :
       /\ err # "read"
       /\ Cardinality(RecordsOf(e)) = IF pc = "push" /\ entry = e THEN 0 ELSE 1
       /\ \A i \in RecordsOf(e) :
            output[i] = [name |-> fs.name[e], path |-> output[i].path,
                         type |-> "file", ext |-> Some(<<".","h","t","m","l">>),
                         size |-> Some(fs.size[e]), title |-> Null,
                         sitemap |-> Null, category |-> Some("markup")]
  /\ (WalkCompleted /\ readFailed # {}) =>
       \A e \in Entries : Cardinality(RecordsOf(e)) = 1

\* a run that ended normally after a failed read, with an entry recorded
\* after the file whose read failed
C4_Witness ==
  /\ pc = "done"
  /\ \E e \in readFailed : \E i \in RecordsOf(e) : i < Len(output)

\* C5: once a directory listing or a stat has thrown, the script is over:
\* no activation of walk is left, tree.json is not written, and output
\* never changes again.
C5_FatalErrorsPropagate ==
  /\ [](err \in {"readdir", "stat"} =>
          pc = "crashed" /\ stack = <<>> /\ ~written)
  /\ [][(err \in {"readdir", "stat"}) => (output' = output /\ written' = written)]_vars

\* a listing or a stat failed below the root with entries still unvisited
C5_Witness ==
  /\ err \in {"readdir", "stat"}
  /\ output # <<>>
  /\ Len(visited) < fs.n

\* C6: every record is a folder or a file; a folder has ext, size, title,
\* sitemap and category null; a file has ext, size and category non-null,
\* and a title or sitemap only when its ext is .html.
C6_FieldGroups ==
  \A i \in DOMAIN output :
    LET r == output[i] IN
    /\ r.type \in {"folder", "file"}
    /\ r.type = "folder" =>
         /\ r.ext = Null /\ r.size = Null /\ r.title = Null
         /\ r.sitemap = Null /\ r.category = Null
    /\ r.type = "file" =>
         /\ r.ext # Null /\ r.size # Null /\ r.category # Null
         /\ (r.title # Null \/ r.sitemap # Null) =>
              r.ext = Some(<<".","h","t","m","l">>)

\* output holds a folder, a file without metadata and an .html file with a title
C6_Witness ==
  /\ \E i \in DOMAIN output : output[i].type = "folder"
  /\ \E i \in DOMAIN output :
       output[i].type = "file" /\ output[i].title = Null /\ output[i].sitemap = Null
  /\ \E i \in DOMAIN output : output[i].type = "file" /\ output[i].title # Null

\* C7 as stated: ext is the lowercased extension with its dot for a file
\* that has one, and null for a folder and for a file that has none.
C7_ExtNullWithoutExtension ==
  \A i \in DOMAIN output :
    LET r == output[i]
        name == fs.name[visited[i]]
    IN IF r.type = "file" /\ HasExtension(name)
       THEN r.ext = Some(toLowerCase(ExtensionOf(name)))
       ELSE r.ext = Null

\* C7 as amended: ext is the lowercased extension with its dot for a file
\* that has one, null for a folder, and the empty string for a file that
\* has none.
C7_ExtEmptyWithoutExtension ==
  \A i \in DOMAIN output :
    LET r == output[i]
        name == fs.name[visited[i]]
    IN IF r.type = "folder" THEN r.ext = Null
       ELSE IF HasExtension(name)
            THEN r.ext = Some(toLowerCase(ExtensionOf(name)))
            ELSE r.ext = Some(<<>>)

\* a file whose extension has capital letters and a file without an
\* extension have both been recorded
C7_Witness ==
  /\ \E i \in DOMAIN output :
       /\ output[i].type = "file"
       /\ HasExtension(output[i].name)
       /\ toLowerCase(ExtensionOf(output[i].name)) # ExtensionOf(output[i].name)
  /\ \E i \in DOMAIN output :
       output[i].type = "file" /\ ~HasExtension(output[i].name)

\* C8: every path is the entry's path below the scan root with "/" between
\* the names, holds no backslash, does not begin with "/" and has no ".."
\* segment.  (".." is read as a path segment, the reading under which a
\* file named a..b is allowed; the claim's "substring" reading is stronger,
\* so a violation of this formula violates it too.)
C8_PathNormalized ==
  \A i \in DOMAIN output :
    LET p == output[i].path IN
    /\ p = EntryPath(visited[i])
    /\ \A k \in DOMAIN p : p[k] # BS
    /\ p # <<>> /\ p[1] # FS
    /\ ~HasSegment(p, <<DOT, DOT>>)

\* C9: a file's category is the table's value for its lowercased extension,
\* unknown for an extension outside the table and for no extension; a
\* folder's category is null.
C9_Classification ==
  \A i \in DOMAIN output :
    LET r == output[i]
        name == fs.name[visited[i]]
    IN IF r.type = "folder" THEN r.category = Null
       ELSE IF HasExtension(name)
            THEN r.category = Some(TableCategory(toLowerCase(ExtensionOf(name))))
            ELSE r.category = Some("unknown")

\* a file named with a capital-letter extension of the table is classified
C9_Witness ==
  \E i \in DOMAIN output :
    /\ output[i].name = <<"X",".","J","P","G">>
    /\ output[i].category = Some("image")

\* C10: folderCount is the number of folder records; fileCount is the
\* number of file records, plus one exactly while a file is being processed
\* or after its stat threw; after a walk that returned the two counters add
\* up to the length of output.
C10_CountersMatchRecords ==
  LET folderRecords == { i \in DOMAIN output : output[i].type = "folder" }
      fileRecords == { i \in DOMAIN output : output[i].type = "file" }
  IN /\ folderCount = Cardinality(folderRecords)
     /\ fileCount = Cardinality(fileRecords)
                      + (IF InFileBranch \/ err = "stat" THEN 1 ELSE 0)
     /\ WalkCompleted => folderCount + fileCount = Len(output)

\* the walk was aborted by a failed stat after it had recorded a file
C10_Witness ==
  /\ err = "stat"
  /\ fileCount >= 2
  /\ folderCount >= 1

====
